---- MODULE Spec2Model ----
(***************************************************************************)
(* Model of the libao bindings (rust-ao).                                  *)
(*                                                                         *)
(*   Spec    the format-adaptive output device, auto.rs                    *)
(*           (AutoFormatDevice::play and the native calls it issues)       *)
(*   SpecAO  the library owner, lib.rs (AO::init / Drop for AO) called     *)
(*           from several threads                                          *)
(*   SpecSink  the demo's DeviceSink::run pulling blocks from a Source     *)
(*   SpecSinkFair  the same, where a run that can take a step takes it     *)
(*   SpecConvert  pipeline.rs, Convert::next over a Source                 *)
(*   SpecNoise  the two white noise generators: WhiteNoise of pipeline.rs  *)
(*           and the typed WhiteNoise of test.rs                           *)
(*   SpecNative  SampleFormat::with_native around a native open, in both   *)
(*           versions of lib.rs                                            *)
(*   SpecRc  the older lib.rs: AO::init returning Rc<AO>, the Devices      *)
(*           made through it and their drops                               *)
(*   SpecErrno  AoError::from_errno, in lib.rs and in the older,           *)
(*           reference-counted lib.rs at the top of the repository         *)
(*                                                                         *)
(* The native library is modelled by what the bindings can observe of it:  *)
(* the set of open device handles, the format each handle was opened with  *)
(* and the calls it receives.  ao_open_live may fail at any time.          *)
(***************************************************************************)
EXTENDS Integers, Sequences, FiniteSets, TLC

\* ------------------------------------------------------------------ bounds

\* number of AutoFormatDevice::play calls in a run
MaxPlays == 3
\* largest length in bytes of SampleBuffer::data()
MaxDataLen == 4
\* number of threads using AO
NumThreads == 3
\* number of AO::init calls in a run
MaxInits == 3
\* number of blocks a finite Source holds
MaxBlocks == 2
\* largest number of samples in a block of a Source
MaxBlockLen == 4
\* samples requested from a DeviceSink, summed over its run calls
MaxRequest == 4
\* largest value a native call leaves in errno
MaxErrno == 101
\* nesting depth of the two-element arrays used as sample type
MaxNest == 2
\* Devices opened in a run of the reference-counted bindings
MaxDevices == 3
\* how far, in quarters, a draw of the normal distribution is taken from
\* zero or from a limit of the integer type
MaxDraw == 9

\* ------------------------------------------------------------------ inputs

ChannelCounts == {1, 2}
SampleRates == {44100, 48000}
\* two of the three values of the enum: the code only compares them
Endiannesses == {"Little", "Native"}
\* 24 stands for every width DeviceFormat::new has no arm for
Widths == {8, 16, 24, 32}
MatrixTables == {<< >>, <<"", "L">>, <<"", "L", "L,R">>}
Threads == 1..NumThreads

\* the buffers a caller can pass to play: any format, any whole number of
\* samples up to MaxDataLen bytes (len is the length of data() in bytes)
Buffers ==
    { b \in [channels : ChannelCounts, sample_rate : SampleRates,
             endianness : Endiannesses, sample_width : Widths,
             len : 0..MaxDataLen] :
        (b.len * 8) % b.sample_width = 0 }

NoBuffer ==
    [channels |-> 0, sample_rate |-> 0, endianness |-> "Native",
     sample_width |-> 0, len |-> 0]

\* ffi.rs: the error codes of libao
AO_ENODRIVER == 1
AO_ENOTFILE == 2
AO_ENOTLIVE == 3
AO_EBADOPTION == 4
AO_EOPENDEVICE == 5
AO_EOPENFILE == 6
AO_EFILEEXISTS == 7
AO_EBADFORMAT == 8
AO_EFAIL == 100

\* Option<&str>
NoMatrix == [some |-> FALSE, str |-> ""]

SomeMatrix(s) == [some |-> TRUE, str |-> s]

\* ffi.rs: the byte orders of libao
AO_FMT_LITTLE == 1
AO_FMT_BIG == 2
AO_FMT_NATIVE == 4

\* the two versions of lib.rs: src/src/lib.rs and the older src/lib.rs with
\* the reference-counted AO
Versions == {"lib", "rc"}

\* the types that implement Sample: i8, i16, i32 and, in src/src/lib.rs,
\* [S; 2] for every S that does (depth counts the array levels)
SampleTypes(version) ==
    [base : {"i8", "i16", "i32"},
     depth : IF version = "lib" THEN 0..MaxNest ELSE {0}]

\* the formats SampleFormat::new can build
SampleFormats(version) ==
    [ty : SampleTypes(version), sample_rate : SampleRates,
     channels : ChannelCounts, byte_order : {"Little", "Big", "Native"},
     matrix : {NoMatrix, SomeMatrix("L,R")}]

\* the values os::errno() can give
ErrnoCodes == (0 - 1)..MaxErrno

\* f64 samples are counted in quarters: 1.0 is 4 quarters
One == 4

\* what ind_sample can give WhiteNoise::next of pipeline.rs
Draws == (0 - MaxDraw)..MaxDraw

\* the integer types the typed generator is checked for, by their width
TypedWidths == {8, 16}

\* Bounded::min_value() and Bounded::max_value() of the type
MinValue(w) == 0 - 2 ^ (w - 1)

MaxValue(w) == 2 ^ (w - 1) - 1

\* what ind_sample can give the typed generator, in quarters: values about
\* zero and about both limits of the type
TypedDraws(w) ==
    { c * One + d : c \in {MinValue(w), 0, MaxValue(w)}, d \in Draws }

\* WhiteNoise::new: block_size
BlockSize == 512

\* block k of a stream: its samples are told apart by their position
BlockOf(k, len) == [i \in 1..len |-> << k, i >>]

\* the blocks a Source yields before it returns None (or, for an endless
\* source, before it starts over)
Sources ==
    { [k \in 1..Len(lens) |-> BlockOf(k, lens[k])] :
        lens \in UNION { [1..n -> 0..MaxBlockLen] : n \in 0..MaxBlocks } }

\* the blocks one run is followed through: more than a run needs to reach
\* its count from a source that has samples, so only a run that is fed
\* empty blocks for ever is cut short
MaxPolls == MaxRequest * MaxBlocks + 1

\* two blocks as WhiteNoise yields them
NoiseSource == [k \in 1..2 |-> BlockOf(k, BlockSize)]

\* ------------------------------------------------------------------ state

VARIABLES
    \* AutoFormatDevice fields (auto.rs:118-125)
    channels, sample_rate, endianness, device, matrixes,
    \* position inside play, and its locals
    pc, data, format, handle,
    \* native library: the open handles and the format each was opened with
    opened, hfmt,
    \* the ao_play call of the current play call, if any
    played,
    \* observation of the run
    calls, result, pre, prevResult, differs, callOpens, allSame, okOpens,
    okWidth, nclosed, closedTwice, playedClosed, lastNative,
    \* AO (lib.rs:246-307)
    FFI_INITIALIZED, tpc, owns, lib, ninit, nshutdown, misuse,
    \* DeviceSink (demo/main.rs:12-44): the blocks its source has left and
    \* whether the source is endless, the locals of run, the slices given
    \* to the device by the current run, and the value run returned
    src, endless, spc, nsamples, done, devPlayed, runRet,
    \* observation of the sink: the source as the current run found it and
    \* the samples requested by all runs so far
    src0, asked,
    \* the calls of self.src.next() the current run has made, and of the run
    \* before it: the source as it found it, the blocks it took and whether
    \* it cut the last of them short
    polls, prev,
    \* errno, and the AoError each from_errno made of it ("none" before)
    errno, aoError, aoErrorRc,
    \* with_native: the version of lib.rs, the SampleFormat, the position
    \* inside with_native, the temporary C string of the matrix ("none",
    \* "alive" or "freed"), the ao_sample_format, what the native open read
    \* through its matrix pointer and the handle it returned
    version, sfmt, wpc, cstr, native, seen, whandle,
    \* Convert (pipeline.rs:31-63), whose upstream is src: the position of
    \* the caller of next, what the upstream returned to the last call, what
    \* the call returned, and the upstream as the call found it
    cpc, cin, cout, cbefore,
    \* WhiteNoise (pipeline.rs:66-100): the position inside next, the number
    \* of samples of the block built so far and the last of them, and what
    \* next returned
    npc, ncount, nlast, nret,
    \* the typed WhiteNoise (test.rs:51-83): the width of T, the position
    \* of the caller of next, and what next returned
    dty, dpc, dret,
    \* the reference-counted bindings (src/lib.rs): for each AO its state,
    \* the strong count of its Rc box and whether the user holds the Rc that
    \* init returned; for each Device its AO and its state; the Device
    \* whose drop is under way (0 for none); whether the process still
    \* runs; the result of the last open
    aos, devs, dropping, rcpc, rclast

afdVars ==
    << channels, sample_rate, endianness, device, matrixes, pc, data, format,
       handle, opened, hfmt, played, calls, result, pre, prevResult, differs,
       callOpens, allSame, okOpens, okWidth, nclosed, closedTwice,
       playedClosed, lastNative >>

aoVars == << FFI_INITIALIZED, tpc, owns, lib, ninit, nshutdown, misuse >>

sinkVars ==
    << src, endless, spc, nsamples, done, devPlayed, runRet, src0, asked,
       polls, prev >>

\* the state of the parts added to the two above
errnoVars == << errno, aoError, aoErrorRc >>

nativeVars == << version, sfmt, wpc, cstr, native, seen, whandle >>

convVars == << cpc, cin, cout, cbefore >>

noiseVars == << npc, ncount, nlast, nret, dty, dpc, dret >>

rcVars == << aos, devs, dropping, rcpc, rclast >>

extVars ==
    << sinkVars, errnoVars, nativeVars, convVars, noiseVars, rcVars >>

vars == << afdVars, aoVars, extVars >>

\* ------------------------------------------------------------------ auto.rs

\* Option<DeviceFormat>: the variant and the native handle it owns
NoDevice == [tag |-> "None", id |-> 0]

NoFormat ==
    [tag |-> "None", bits |-> 0, sample_rate |-> 0, channels |-> 0,
     byte_order |-> "Native", matrix |-> NoMatrix]

\* size_of::<S>() for the sample type of a variant
SizeOf(tag) ==
    CASE tag = "Integer8" -> 1
      [] tag = "Integer16" -> 2
      [] tag = "Integer32" -> 4

\* DeviceFormat::sample_width
SampleWidthOf(d) ==
    CASE d.tag = "Integer8" -> 8
      [] d.tag = "Integer16" -> 16
      [] d.tag = "Integer32" -> 32

\* the arms of `match width` in DeviceFormat::new; "panic" is the last arm
VariantFallback(width) ==
    CASE width = 8 -> "Integer8"
      [] width = 16 -> "Integer16"
      [] OTHER -> "Integer32"

VariantFor(width) ==
    CASE width = 8 -> "Integer8"
      [] width = 16 -> "Integer16"
      [] width = 32 -> "Integer32"
      [] OTHER -> "panic"

\* matrix_for: matrixes[nchannels] of a 0-based Vec is element nchannels+1
MatrixForOffByOne(m, nchannels) ==
    IF Len(m) < nchannels THEN NoMatrix ELSE SomeMatrix(m[nchannels])

MatrixFor(m, nchannels) ==
    IF Len(m) <= nchannels THEN NoMatrix ELSE SomeMatrix(m[nchannels + 1])

\* build_format::<S> followed by the bits with_native derives from S
BuildFormat(tag, rate, nchannels, order, matrix) ==
    [tag |-> tag, bits |-> SizeOf(tag) * 8, sample_rate |-> rate,
     channels |-> nchannels, byte_order |-> order, matrix |-> matrix]

\* must_reopen
MustReopenAlways(d, ch, sr, en, b) == TRUE

MustReopenNoRate(d, ch, sr, en, b) ==
    IF d = NoDevice
    THEN TRUE
    ELSE \/ b.channels # ch
         \/ b.endianness # en
         \/ b.sample_width # SampleWidthOf(d)

MustReopenNoWidth(d, ch, sr, en, b) ==
    IF d = NoDevice
    THEN TRUE
    ELSE \/ b.channels # ch
         \/ b.sample_rate # sr
         \/ b.endianness # en

MustReopen(d, ch, sr, en, b) ==
    IF d = NoDevice
    THEN TRUE
    ELSE \/ b.channels # ch
         \/ b.sample_rate # sr
         \/ b.endianness # en
         \/ b.sample_width # SampleWidthOf(d)

\* data(): a slice of len elements of one byte each
ByteSlice(len) == [len |-> len, elem |-> 1]

\* mem::transmute of &[u8] to &[S]: the pointer and the element count of
\* the slice are kept as they are, the element type becomes S
Transmute(slice, tag) == [len |-> slice.len, elem |-> SizeOf(tag)]

\* Device::play: the byte count handed to ao_play,
\* samples.len() * size_of::<S>()
PlayBytes(samples) == samples.len * samples.elem

\* Drop for Device, applied to a dropped Option<DeviceFormat>: the handles
\* that ao_close is called on
DropDeviceLeak(d) == {}

DropDevice(d) == IF d = NoDevice THEN {} ELSE {d.id}

SameFormat(a, b) ==
    /\ a.channels = b.channels
    /\ a.sample_rate = b.sample_rate
    /\ a.endianness = b.endianness
    /\ a.sample_width = b.sample_width

\* what a play call must leave alone when it does not return Ok
Snapshot ==
    [channels |-> channels, sample_rate |-> sample_rate,
     endianness |-> endianness, device |-> device, opened |-> opened]

NoSnapshot ==
    [channels |-> 0, sample_rate |-> 0, endianness |-> "Native",
     device |-> NoDevice, opened |-> {}]

NoPlay == [id |-> 0, num_bytes |-> 0, ret |-> 0]

\* ao_open_live returns a pointer that is not the pointer of an open device
NewHandle == CHOOSE h \in 1..(Cardinality(opened) + 1) : h \notin opened

aoUnchanged == UNCHANGED << aoVars, extVars >>

afdUnchanged == UNCHANGED << afdVars, extVars >>

\* the cached triple as play leaves it before the device is (re)opened:
\* untouched when a reopen is pending (lines 170-174 come first), the
\* buffer's values when the open device is reused (lines 177-179)
FieldsOnEntryEager(reopen, b) ==
    [channels |-> b.channels, sample_rate |-> b.sample_rate,
     endianness |-> b.endianness]

FieldsOnEntry(reopen, b) ==
    IF reopen
    THEN [channels |-> channels, sample_rate |-> sample_rate,
          endianness |-> endianness]
    ELSE [channels |-> b.channels, sample_rate |-> b.sample_rate,
          endianness |-> b.endianness]

\* play, from its entry to the first native call (or to the panic of
\* DeviceFormat::new, which precedes every native call)
PlayBegin(b) ==
    /\ pc = "idle"
    /\ calls < MaxPlays
    /\ calls' = calls + 1
    /\ data' = b
    /\ pre' = Snapshot
    /\ prevResult' = result
    /\ differs' = (calls > 0 /\ ~SameFormat(b, data))
    /\ allSame' = (calls = 0 \/ (allSame /\ SameFormat(b, data)))
    /\ callOpens' = 0
    /\ played' = NoPlay
    /\ LET must_reopen ==
               MustReopen(device, channels, sample_rate, endianness, b)
           tag == VariantFor(b.sample_width)
           f == FieldsOnEntry(must_reopen, b)
       IN  /\ channels' = f.channels
           /\ sample_rate' = f.sample_rate
           /\ endianness' = f.endianness
           /\ IF must_reopen
              THEN IF tag = "panic"
                   THEN /\ pc' = "panicked"
                        /\ result' = "panic"
                        /\ format' = NoFormat
                   ELSE /\ pc' = "open"
                        /\ result' = "none"
                        /\ format' = BuildFormat(tag, b.sample_rate,
                                         b.channels, b.endianness,
                                         MatrixFor(matrixes, b.channels))
              ELSE /\ pc' = "write"
                   /\ result' = "none"
                   /\ format' = NoFormat
    /\ handle' = 0
    /\ UNCHANGED << device, matrixes, opened, hfmt, okOpens, okWidth, nclosed,
                    closedTwice, playedClosed, lastNative >>
    /\ aoUnchanged

\* Driver::open_live: ao_open_live returns a new handle
OpenLiveOk ==
    /\ pc = "open"
    /\ handle' = NewHandle
    /\ opened' = opened \cup {NewHandle}
    /\ hfmt' = [h \in opened \cup {NewHandle} |->
                   IF h = NewHandle THEN format ELSE hfmt[h]]
    /\ callOpens' = callOpens + 1
    /\ okOpens' = okOpens + 1
    /\ lastNative' = "ao_open_live"
    /\ pc' = "assign"
    /\ UNCHANGED << channels, sample_rate, endianness, device, matrixes, data,
                    format, played, calls, result, pre, prevResult, differs,
                    allSame, okWidth, nclosed, closedTwice, playedClosed >>
    /\ aoUnchanged

\* Driver::open_live: ao_open_live returns null and leaves its error code
\* in errno
OpenLiveFail ==
    /\ pc = "open"
    /\ handle' = 0
    /\ callOpens' = callOpens + 1
    /\ lastNative' = "ao_open_live"
    /\ pc' = "errno"
    /\ UNCHANGED << channels, sample_rate, endianness, device, matrixes, data,
                    format, opened, hfmt, played, calls, result, pre,
                    prevResult, differs, allSame, okOpens, okWidth, nclosed,
                    closedTwice, playedClosed >>
    /\ aoUnchanged

\* the devices dropped on the way from the null handle to the read of errno:
\* with_native and open_live return the pointer, Device::init tests it, and
\* try! leaves play before the assignment to self.device
ClosedOnFailureCached(d) == DropDevice(d)

ClosedOnFailure(d) == {}

\* Device::init on the null handle: Err(AoError::from_errno()) reads errno,
\* and try! returns the Err from play
FromErrno ==
    /\ pc = "errno"
    /\ opened' = opened \ ClosedOnFailure(device)
    /\ hfmt' = [h \in opened \ ClosedOnFailure(device) |-> hfmt[h]]
    /\ nclosed' = nclosed + Cardinality(ClosedOnFailure(device))
    /\ closedTwice' = (closedTwice \/ ~(ClosedOnFailure(device) \subseteq opened))
    /\ lastNative' = IF ClosedOnFailure(device) = {}
                     THEN lastNative ELSE "ao_close"
    /\ result' = "Err"
    /\ pc' = "idle"
    /\ UNCHANGED << channels, sample_rate, endianness, device, matrixes, data,
                    format, handle, played, calls, pre, prevResult, differs,
                    callOpens, allSame, okOpens, okWidth, playedClosed >>
    /\ aoUnchanged

\* self.device = Some(new): the previous value is dropped, which closes its
\* handle (Drop for Device); then lines 177-179
Assign ==
    /\ pc = "assign"
    /\ opened' = opened \ DropDevice(device)
    /\ hfmt' = [h \in opened \ DropDevice(device) |-> hfmt[h]]
    /\ device' = [tag |-> format.tag, id |-> handle]
    /\ channels' = data.channels
    /\ sample_rate' = data.sample_rate
    /\ endianness' = data.endianness
    /\ pre' = NoSnapshot
    /\ nclosed' = nclosed + Cardinality(DropDevice(device))
    /\ closedTwice' = (closedTwice \/ ~(DropDevice(device) \subseteq opened))
    /\ lastNative' = IF DropDevice(device) = {} THEN lastNative ELSE "ao_close"
    /\ pc' = "write"
    /\ UNCHANGED << matrixes, data, format, handle, played, calls, result,
                    prevResult, differs, callOpens, allSame, okOpens,
                    okWidth, playedClosed >>
    /\ aoUnchanged

\* ao_play returns zero on failure and non-zero on success
PlayReturns == {0, 1}

\* what AutoFormatDevice::play returns after the dispatch: Device::play
\* drops the int ao_play returned and returns (), then play ends in Ok(())
PlayResultChecked(ret) == IF ret = 0 THEN "Err" ELSE "Ok"

PlayResult(ret) == "Ok"

\* the dispatch on the variant and Device::play; play returns Ok(())
Play ==
    /\ pc = "write"
    /\ \E ret \in PlayReturns :
          /\ played' = [id |-> device.id,
                         num_bytes |->
                             PlayBytes(Transmute(ByteSlice(data.len),
                                                 device.tag)),
                         ret |-> ret]
          /\ result' = PlayResult(ret)
    /\ playedClosed' = (playedClosed \/ device.id \notin opened)
    /\ lastNative' = "ao_play"
    /\ okWidth' = data.sample_width
    /\ pre' = NoSnapshot
    /\ pc' = "idle"
    /\ UNCHANGED << channels, sample_rate, endianness, device, matrixes, data,
                    format, handle, opened, hfmt, calls, prevResult, differs,
                    callOpens, allSame, okOpens, nclosed, closedTwice >>
    /\ aoUnchanged

\* the AutoFormatDevice goes out of scope (also by unwinding after a panic):
\* its device, if any, is dropped
DropAuto ==
    /\ pc \in {"idle", "panicked"}
    /\ opened' = opened \ DropDevice(device)
    /\ hfmt' = [h \in opened \ DropDevice(device) |-> hfmt[h]]
    /\ device' = NoDevice
    /\ nclosed' = nclosed + Cardinality(DropDevice(device))
    /\ closedTwice' = (closedTwice \/ ~(DropDevice(device) \subseteq opened))
    /\ lastNative' = IF DropDevice(device) = {} THEN lastNative ELSE "ao_close"
    /\ pc' = "dropped"
    /\ UNCHANGED << channels, sample_rate, endianness, matrixes, data, format,
                    handle, played, calls, result, pre, prevResult, differs,
                    callOpens, allSame, okOpens, okWidth, playedClosed >>
    /\ aoUnchanged

\* ------------------------------------------------------------------ lib.rs

\* the test `if FFI_INITIALIZED.compare_and_swap(false, true, AcqRel)`
InitRefusedNever(old) == FALSE

InitRefused(old) == old

\* AO::init up to the panic or to the point before ao_initialize
InitCAS(t) ==
    /\ tpc[t] = "idle"
    /\ ninit < MaxInits
    /\ FFI_INITIALIZED' = TRUE
    /\ tpc' = [tpc EXCEPT ![t] = IF InitRefused(FFI_INITIALIZED)
                                 THEN "panicked" ELSE "initializing"]
    /\ UNCHANGED << owns, lib, ninit, nshutdown, misuse >>
    /\ afdUnchanged

\* ffi::ao_initialize(), and init returns the AO
InitNative(t) ==
    /\ tpc[t] = "initializing"
    /\ misuse' = (misuse \/ lib = "up")
    /\ lib' = "up"
    /\ ninit' = ninit + 1
    /\ owns' = [owns EXCEPT ![t] = @ + 1]
    /\ tpc' = [tpc EXCEPT ![t] = "idle"]
    /\ UNCHANGED << FFI_INITIALIZED, nshutdown >>
    /\ afdUnchanged

\* Drop for AO, first statement: ffi::ao_shutdown().  A thread drops the AO
\* it holds when it is done with it, or while unwinding from a panic
DropShutdown(t) ==
    /\ tpc[t] \in {"idle", "panicked"}
    /\ owns[t] > 0
    /\ misuse' = (misuse \/ lib = "down")
    /\ lib' = "down"
    /\ nshutdown' = nshutdown + 1
    /\ tpc' = [tpc EXCEPT ![t] = IF @ = "idle" THEN "dropping" ELSE "unwinding"]
    /\ UNCHANGED << FFI_INITIALIZED, owns, ninit >>
    /\ afdUnchanged

\* Drop for AO, second statement: FFI_INITIALIZED.store(false)
DropStore(t) ==
    /\ tpc[t] \in {"dropping", "unwinding"}
    /\ FFI_INITIALIZED' = FALSE
    /\ owns' = [owns EXCEPT ![t] = @ - 1]
    /\ tpc' = [tpc EXCEPT ![t] = IF @ = "dropping" THEN "idle" ELSE "panicked"]
    /\ UNCHANGED << lib, ninit, nshutdown, misuse >>
    /\ afdUnchanged

\* ------------------------------------------------------------------ demo/main.rs

\* self.src.next(): the block a source yields, None when it has no more
NoBlock == [some |-> FALSE, block |-> << >>]

SourceNext(blocks) ==
    IF blocks = << >> THEN NoBlock ELSE [some |-> TRUE, block |-> Head(blocks)]

\* the source after next(): an endless source starts over after its last
\* block
SourceRestKeep(blocks, cyc) == blocks

SourceRest(blocks, cyc) ==
    IF blocks = << >>
    THEN << >>
    ELSE IF cyc THEN Append(Tail(blocks), Head(blocks)) ELSE Tail(blocks)

\* the `let data = if n.len() > (samples - done) ...` of run
SliceWhole(n, remaining) == n

SliceFor(n, remaining) ==
    IF Len(n) > remaining THEN SubSeq(n, 1, remaining) ELSE n

\* the test of `while done < samples`
LoopTestLe(d, n) == d <= n

LoopTest(d, n) == d < n

\* no run before the current one
NoRun == [src0 |-> << >>, taken |-> 0, cut |-> FALSE]

\* run(nsamples) is called: `let mut done = 0`
SinkRun(n) ==
    /\ spc \in {"idle", "returned"}
    /\ \/ asked + n <= MaxRequest
       \/ n = 1000 /\ asked = 0 /\ src = NoiseSource
    /\ asked' = asked + n
    /\ nsamples' = n
    /\ done' = 0
    /\ devPlayed' = << >>
    /\ src0' = src
    /\ polls' = 0
    /\ prev' = IF spc = "idle"
               THEN NoRun
               ELSE [src0 |-> src0, taken |-> Len(devPlayed),
                     cut |-> /\ devPlayed # << >>
                             /\ Len(devPlayed[Len(devPlayed)]) <
                                    Len(src0[((Len(devPlayed) - 1)
                                              % Len(src0)) + 1])]
    /\ spc' = "loop"
    /\ UNCHANGED << src, endless, runRet >>
    /\ UNCHANGED << afdVars, aoVars, errnoVars, nativeVars, convVars, noiseVars,
                    rcVars >>

\* the test of `while done < samples` fails: run returns done
SinkReturn ==
    /\ spc = "loop"
    /\ ~LoopTest(done, nsamples)
    /\ runRet' = done
    /\ spc' = "returned"
    /\ UNCHANGED << src, endless, nsamples, done, devPlayed, src0, asked,
                    polls, prev >>
    /\ UNCHANGED << afdVars, aoVars, errnoVars, nativeVars, convVars, noiseVars,
                    rcVars >>

\* the source returns None: `None => return done`
SinkNone ==
    /\ spc = "loop"
    /\ LoopTest(done, nsamples)
    /\ ~SourceNext(src).some
    /\ polls' = polls + 1
    /\ runRet' = done
    /\ spc' = "returned"
    /\ UNCHANGED << src, endless, nsamples, done, devPlayed, src0, asked,
                    prev >>
    /\ UNCHANGED << afdVars, aoVars, errnoVars, nativeVars, convVars, noiseVars,
                    rcVars >>

\* the source returns Some(n): the block, or its first samples - done
\* samples, is counted and given to self.dev.play
SinkBlock ==
    /\ spc = "loop"
    /\ LoopTest(done, nsamples)
    /\ SourceNext(src).some
    /\ Len(devPlayed) < MaxPolls
    /\ polls' = polls + 1
    /\ LET n == SourceNext(src).block
           slice == SliceFor(n, nsamples - done)
       IN  /\ done' = done + Len(slice)
           /\ devPlayed' = Append(devPlayed, slice)
    /\ src' = SourceRest(src, endless)
    /\ UNCHANGED << endless, spc, nsamples, runRet, src0, asked, prev >>
    /\ UNCHANGED << afdVars, aoVars, errnoVars, nativeVars, convVars, noiseVars,
                    rcVars >>

\* ------------------------------------------------------------------ pipeline.rs

\* the closure of Convert<f64, i16>::next: `|&s| { 0 }`
ConvertSample(s) == 0

\* `.iter().map(..).collect()`: one output sample for each input sample
ConvertBlock(n) == [i \in 1..Len(n) |-> ConvertSample(n[i])]

\* Convert::next when self.src.next() is Some(n): `Some(out)`
ConvertSome ==
    /\ cpc \in {"idle", "returned"}
    /\ SourceNext(src).some
    /\ cbefore' = src
    /\ cin' = SourceNext(src)
    /\ cout' = [some |-> TRUE, block |-> ConvertBlock(SourceNext(src).block)]
    /\ src' = SourceRest(src, endless)
    /\ cpc' = "returned"
    /\ UNCHANGED << endless, spc, nsamples, done, devPlayed, runRet, src0,
                    asked, polls, prev >>
    /\ UNCHANGED << afdVars, aoVars, errnoVars, nativeVars, noiseVars, rcVars >>

\* Convert::next when self.src.next() is None: `.unwrap()` panics
ConvertUnwrapNone ==
    /\ cpc \in {"idle", "returned"}
    /\ ~SourceNext(src).some
    /\ cbefore' = src
    /\ cin' = NoBlock
    /\ cout' = NoBlock
    /\ cpc' = "panicked"
    /\ UNCHANGED sinkVars
    /\ UNCHANGED << afdVars, aoVars, errnoVars, nativeVars, noiseVars, rcVars >>

\* Option<~[f64]>, by the length of the vector
NoVec == [some |-> FALSE, len |-> 0]

\* Option<T>
NoValue == [some |-> FALSE, val |-> 0]

\* the closure of WhiteNoise::next after the draw:
\* `if x > 1.0 { 1.0 } else if x < -1.0 { -1.0 } else { x }`
ClampUnitLow(x) == IF x < 0 - One THEN 0 - One ELSE x

ClampUnit(x) == IF x > One THEN One ELSE IF x < 0 - One THEN 0 - One ELSE x

\* WhiteNoise::next is called: Vec::from_fn starts with an empty vector
NoiseNext ==
    /\ npc \in {"idle", "returned"}
    /\ ncount' = 0
    /\ npc' = "filling"
    /\ UNCHANGED << nlast, nret, dty, dpc, dret >>
    /\ UNCHANGED << afdVars, aoVars, sinkVars, errnoVars, nativeVars,
                    convVars, rcVars >>

\* Vec::from_fn calls the closure for the next of its block_size elements
NoiseSample(x) ==
    /\ npc = "filling"
    /\ ncount < BlockSize
    /\ nlast' = ClampUnit(x)
    /\ ncount' = ncount + 1
    /\ UNCHANGED << npc, nret, dty, dpc, dret >>
    /\ UNCHANGED << afdVars, aoVars, sinkVars, errnoVars, nativeVars,
                    convVars, rcVars >>

\* the vector is complete: next returns Some of it
NoiseReturn ==
    /\ npc = "filling"
    /\ ~(ncount < BlockSize)
    /\ nret' = [some |-> TRUE, len |-> ncount]
    /\ npc' = "returned"
    /\ UNCHANGED << ncount, nlast, dty, dpc, dret >>
    /\ UNCHANGED << afdVars, aoVars, sinkVars, errnoVars, nativeVars,
                    convVars, rcVars >>

\* ------------------------------------------------------------------ test.rs

\* `if sample < min { min } else if sample > max { max } else { sample }`
\* with min and max the limits of T as f64
ClampTo(x, w) ==
    IF x < MinValue(w) * One
    THEN MinValue(w) * One
    ELSE IF x > MaxValue(w) * One THEN MaxValue(w) * One ELSE x

\* cast::<f64, T>: the value without its fraction if T can hold it
CastTo(x, w) ==
    LET v == IF x >= 0 THEN x \div One ELSE 0 - ((0 - x) \div One)
    IN  IF MinValue(w) <= v /\ v <= MaxValue(w)
        THEN [some |-> TRUE, val |-> v]
        ELSE NoValue

\* next of the typed generator
TypedNext(x) ==
    /\ dpc \in {"idle", "returned"}
    /\ dret' = CastTo(ClampTo(x, dty), dty)
    /\ dpc' = "returned"
    /\ UNCHANGED << npc, ncount, nlast, nret, dty >>
    /\ UNCHANGED << afdVars, aoVars, sinkVars, errnoVars, nativeVars,
                    convVars, rcVars >>

\* ------------------------------------------------------------------ with_native

NoSampleFormat ==
    [ty |-> [base |-> "i8", depth |-> 0], sample_rate |-> 0, channels |-> 0,
     byte_order |-> "Native", matrix |-> NoMatrix]

NoNative ==
    [bits |-> 0, rate |-> 0, channels |-> 0, byte_format |-> 0,
     matrix |-> "null"]

RECURSIVE SizeOfSample(_)
\* size_of::<T>() of a Sample type: an array [S; 2] is twice its element
SizeOfSample(ty) ==
    IF ty.depth = 0
    THEN CASE ty.base = "i8" -> 1
           [] ty.base = "i16" -> 2
           [] ty.base = "i32" -> 4
    ELSE 2 * SizeOfSample([ty EXCEPT !.depth = @ - 1])

\* `self.byte_order as c_int`
ByteFormat(order) ==
    CASE order = "Little" -> AO_FMT_LITTLE
      [] order = "Big" -> AO_FMT_BIG
      [] order = "Native" -> AO_FMT_NATIVE

\* the ao_sample_format literal of with_native
NativeFormat(f, matrixPtr) ==
    [bits |-> SizeOfSample(f.ty) * 8, rate |-> f.sample_rate,
     channels |-> f.channels, byte_format |-> ByteFormat(f.byte_order),
     matrix |-> matrixPtr]

\* the C string after the native struct has been filled in: in
\* src/src/lib.rs `matrix.map_or(ptr::null(), |cs| cs.as_ptr())` takes the
\* CString by value and drops it when the closure returns; in src/lib.rs the
\* string lives as long as the closure of with_c_str runs
CStringOnceStored(v, c) == IF v = "lib" /\ c = "alive" THEN "freed" ELSE c

\* what a read through the matrix pointer can give: nothing for the null
\* pointer, the string while it is allocated, and the old bytes or whatever
\* replaced them once it has been freed
MatrixRead(f, n, c) ==
    IF n.matrix = "null"
    THEN {"null"}
    ELSE IF c = "alive" THEN {f.matrix.str} ELSE {f.matrix.str, "garbage"}

\* the C string of the matrix is made: `CString::new(..).ok()` at the start
\* of with_native in src/src/lib.rs; with_c_str, after the native struct
\* has been built with a null matrix, in src/lib.rs, which also stores the
\* pointer
WnCString ==
    /\ \/ version = "lib" /\ wpc = "start"
       \/ version = "rc" /\ wpc = "native" /\ sfmt.matrix.some
    /\ cstr' = IF sfmt.matrix.some THEN "alive" ELSE "none"
    /\ native' = IF version = "rc" THEN [native EXCEPT !.matrix = "ptr"]
                 ELSE native
    /\ wpc' = IF version = "lib" THEN "cstring" ELSE "ready"
    /\ UNCHANGED << version, sfmt, seen, whandle >>
    /\ UNCHANGED << afdVars, aoVars, sinkVars, errnoVars, convVars, noiseVars,
                    rcVars >>

\* `let native = ffi::ao_sample_format { .. }`
WnNative ==
    /\ \/ version = "lib" /\ wpc = "cstring"
       \/ version = "rc" /\ wpc = "start"
    /\ native' = NativeFormat(sfmt, IF version = "lib" /\ cstr = "alive"
                                    THEN "ptr" ELSE "null")
    /\ cstr' = CStringOnceStored(version, cstr)
    /\ wpc' = IF version = "rc" /\ sfmt.matrix.some THEN "native" ELSE "ready"
    /\ UNCHANGED << version, sfmt, seen, whandle >>
    /\ UNCHANGED << afdVars, aoVars, sinkVars, errnoVars, convVars, noiseVars,
                    rcVars >>

\* f(&native): the native open starts and reads the format
WnCall ==
    /\ wpc = "ready"
    /\ seen' \in MatrixRead(sfmt, native, cstr)
    /\ wpc' = "calling"
    /\ UNCHANGED << version, sfmt, cstr, native, whandle >>
    /\ UNCHANGED << afdVars, aoVars, sinkVars, errnoVars, convVars, noiseVars,
                    rcVars >>

\* the native open returns a handle or null
WnCallReturns ==
    /\ wpc = "calling"
    /\ whandle' \in {0, 1}
    /\ wpc' = IF version = "rc" /\ cstr = "alive" THEN "called" ELSE "returned"
    /\ UNCHANGED << version, sfmt, cstr, native, seen >>
    /\ UNCHANGED << afdVars, aoVars, sinkVars, errnoVars, convVars, noiseVars,
                    rcVars >>

\* with_c_str frees the C string when its closure has returned
WnFree ==
    /\ wpc = "called"
    /\ cstr' = "freed"
    /\ wpc' = "returned"
    /\ UNCHANGED << version, sfmt, native, seen, whandle >>
    /\ UNCHANGED << afdVars, aoVars, sinkVars, errnoVars, convVars, noiseVars,
                    rcVars >>

\* ------------------------------------------------------------------ src/lib.rs

\* the AOs and the Devices of a run
RcAOs == 1..MaxInits

RcDevices == 1..MaxDevices

NoAO == [st |-> "none", strong |-> 0, user |-> FALSE]

NoRcDevice == [ao |-> 0, st |-> "none", late |-> FALSE]

\* what the assignment `m.rbox = owner.clone().downgrade()` can do: it
\* drops the value m.rbox had, which is the uninitialised memory of
\* mem::uninit; the drop of a Weak that is null by chance does nothing, any
\* other follows a wild pointer and can end the process
UninitDropOutcomes == {"running", "crashed"}

\* the strong count once create_device has made its Device: the Device
\* keeps the Rc that `self.rbox.clone().upgrade().unwrap()` gave
StrongWithDeviceBorrowed(n) == n

StrongWithDevice(n) == n + 1

\* Drop for Rc<AO>, for an AO in state a: the count goes down, and at zero
\* the AO is dropped, which calls ao_shutdown
RcRelease(a) ==
    [a EXCEPT !.strong = @ - 1,
              !.st = IF a.strong - 1 = 0 THEN "shut" ELSE a.st]

\* AO::init: ao_initialize, Rc::new, and the weak reference to itself
RcInit(a) ==
    /\ rcpc = "running"
    /\ dropping = 0
    /\ aos[a].st = "none"
    /\ \A b \in RcAOs : b < a => aos[b].st # "none"
    /\ rcpc' \in UninitDropOutcomes
    /\ aos' = [aos EXCEPT ![a] = [st |-> "live", strong |-> 1, user |-> TRUE]]
    /\ UNCHANGED << devs, dropping, rclast >>
    /\ UNCHANGED << afdVars, aoVars, sinkVars, errnoVars, nativeVars,
                    convVars, noiseVars >>

\* open_device or open_file through the AO the user holds, the native open
\* returning a handle: create_device gives Ok(Device)
RcOpenOk(a, d) ==
    /\ rcpc = "running"
    /\ dropping = 0
    /\ aos[a].user
    /\ devs[d].st = "none"
    /\ \A e \in RcDevices : e < d => devs[e].st # "none"
    /\ aos' = [aos EXCEPT ![a].strong = StrongWithDevice(@)]
    /\ devs' = [devs EXCEPT ![d] = [ao |-> a, st |-> "open", late |-> FALSE]]
    /\ rclast' = "Ok"
    /\ UNCHANGED << dropping, rcpc >>
    /\ UNCHANGED << afdVars, aoVars, sinkVars, errnoVars, nativeVars,
                    convVars, noiseVars >>

\* the native open returning null: create_device gives Err and drops the
\* Rc it had taken
RcOpenFail(a) ==
    /\ rcpc = "running"
    /\ dropping = 0
    /\ aos[a].user
    /\ rclast' = "Err"
    /\ UNCHANGED << aos, devs, dropping, rcpc >>
    /\ UNCHANGED << afdVars, aoVars, sinkVars, errnoVars, nativeVars,
                    convVars, noiseVars >>

\* the user drops the Rc<AO> that init returned
RcDropUser(a) ==
    /\ rcpc = "running"
    /\ dropping = 0
    /\ aos[a].user
    /\ aos' = [aos EXCEPT ![a] = [RcRelease(@) EXCEPT !.user = FALSE]]
    /\ UNCHANGED << devs, dropping, rcpc, rclast >>
    /\ UNCHANGED << afdVars, aoVars, sinkVars, errnoVars, nativeVars,
                    convVars, noiseVars >>

\* Drop for Device, its body: ao_close(self.id)
RcDeviceClose(d) ==
    /\ rcpc = "running"
    /\ dropping = 0
    /\ devs[d].st = "open"
    /\ devs' = [devs EXCEPT ![d].st = "closed",
                            ![d].late = ~aos[devs[d].ao].user]
    /\ dropping' = d
    /\ UNCHANGED << aos, rcpc, rclast >>
    /\ UNCHANGED << afdVars, aoVars, sinkVars, errnoVars, nativeVars,
                    convVars, noiseVars >>

\* Drop for Device, after its body: the field lib_instance is dropped
RcDeviceRelease ==
    /\ rcpc = "running"
    /\ dropping # 0
    /\ aos' = [aos EXCEPT ![devs[dropping].ao] = RcRelease(@)]
    /\ devs' = [devs EXCEPT ![dropping].st = "released"]
    /\ dropping' = 0
    /\ UNCHANGED << rcpc, rclast >>
    /\ UNCHANGED << afdVars, aoVars, sinkVars, errnoVars, nativeVars,
                    convVars, noiseVars >>

\* ------------------------------------------------------------------ from_errno

\* AoError::from_errno of src/lib.rs, the match on os::errno()
AoErrorFromErrnoRc(code) ==
    CASE code = AO_ENODRIVER -> "NoDriver"
      [] code = AO_ENOTFILE -> "NotFile"
      [] code = AO_ENOTLIVE -> "NotLive"
      [] code = AO_EBADOPTION -> "BadOption"
      [] code = AO_EOPENDEVICE -> "OpenDevice"
      [] code = AO_EFILEEXISTS -> "FileExists"
      [] code = AO_EBADFORMAT -> "BadFormat"
      [] OTHER -> "Unknown"

\* AoError::from_errno of src/src/lib.rs, the match on os::errno() as c_int
AoErrorFromErrno(code) ==
    CASE code = AO_ENODRIVER -> "NoDriver"
      [] code = AO_ENOTFILE -> "NotFile"
      [] code = AO_ENOTLIVE -> "NotLive"
      [] code = AO_EBADOPTION -> "BadOption"
      [] code = AO_EOPENDEVICE -> "OpenDevice"
      [] code = AO_EOPENFILE -> "OpenFile"
      [] code = AO_EFILEEXISTS -> "FileExists"
      [] code = AO_EBADFORMAT -> "BadFormat"
      [] OTHER -> "Unknown"

\* a native call fails and leaves its code in errno
NativeFails(code) ==
    /\ errno' = code
    /\ aoError' = "none"
    /\ aoErrorRc' = "none"
    /\ UNCHANGED << afdVars, aoVars, sinkVars, nativeVars, convVars, noiseVars,
                    rcVars >>

\* from_errno of src/src/lib.rs is called
TranslateErrno ==
    /\ aoError = "none"
    /\ aoError' = AoErrorFromErrno(errno)
    /\ UNCHANGED << errno, aoErrorRc >>
    /\ UNCHANGED << afdVars, aoVars, sinkVars, nativeVars, convVars, noiseVars,
                    rcVars >>

\* from_errno of src/lib.rs is called
TranslateErrnoRc ==
    /\ aoErrorRc = "none"
    /\ aoErrorRc' = AoErrorFromErrnoRc(errno)
    /\ UNCHANGED << errno, aoError >>
    /\ UNCHANGED << afdVars, aoVars, sinkVars, nativeVars, convVars, noiseVars,
                    rcVars >>

\* ------------------------------------------------------------------ specifications

\* AutoFormatDevice::new with one of the given matrix tables
InitAFD(tables) ==
    /\ channels = 0
    /\ sample_rate = 0
    /\ endianness = "Native"
    /\ device = NoDevice
    /\ matrixes \in tables
    /\ pc = "idle"
    /\ data = NoBuffer
    /\ format = NoFormat
    /\ handle = 0
    /\ opened = {}
    /\ hfmt = [h \in {} |-> NoFormat]
    /\ played = NoPlay
    /\ calls = 0
    /\ result = "none"
    /\ pre = NoSnapshot
    /\ prevResult = "none"
    /\ differs = FALSE
    /\ callOpens = 0
    /\ allSame = TRUE
    /\ okOpens = 0
    /\ okWidth = 0
    /\ nclosed = 0
    /\ closedTwice = FALSE
    /\ playedClosed = FALSE
    /\ lastNative = "none"

\* the library before the first AO::init
InitAO ==
    /\ FFI_INITIALIZED = FALSE
    /\ tpc = [t \in Threads |-> "idle"]
    /\ owns = [t \in Threads |-> 0]
    /\ lib = "down"
    /\ ninit = 0
    /\ nshutdown = 0
    /\ misuse = FALSE

\* no DeviceSink
InitNoSink ==
    /\ src = << >>
    /\ endless = FALSE
    /\ spc = "none"
    /\ nsamples = 0
    /\ done = 0
    /\ devPlayed = << >>
    /\ runRet = 0
    /\ src0 = << >>
    /\ asked = 0
    /\ polls = 0
    /\ prev = NoRun

\* errno before any native call has failed
InitNoErrno ==
    /\ errno = 0
    /\ aoError = "none"
    /\ aoErrorRc = "none"

\* no SampleFormat in use
InitNoNative ==
    /\ version = "lib"
    /\ sfmt = NoSampleFormat
    /\ wpc = "none"
    /\ cstr = "none"
    /\ native = NoNative
    /\ seen = "none"
    /\ whandle = 0

\* no Convert
InitNoConvert ==
    /\ cpc = "none"
    /\ cin = NoBlock
    /\ cout = NoBlock
    /\ cbefore = << >>

\* the reference-counted bindings before the first AO::init
InitNoRc ==
    /\ aos = [a \in RcAOs |-> NoAO]
    /\ devs = [d \in RcDevices |-> NoRcDevice]
    /\ dropping = 0
    /\ rcpc = "running"
    /\ rclast = "none"

\* no white noise generator
InitNoNoise ==
    /\ npc = "none"
    /\ ncount = 0
    /\ nlast = 0
    /\ nret = NoVec
    /\ dty = 8
    /\ dpc = "none"
    /\ dret = NoValue

Init ==
    /\ InitAFD(MatrixTables)
    /\ InitAO
    /\ InitNoSink
    /\ InitNoErrno
    /\ InitNoNative
    /\ InitNoConvert
    /\ InitNoNoise
    /\ InitNoRc

Next ==
    \/ \E b \in Buffers : PlayBegin(b)
    \/ OpenLiveOk
    \/ OpenLiveFail
    \/ FromErrno
    \/ Assign
    \/ Play
    \/ DropAuto

Spec == Init /\ [][Next]_vars

NextAO ==
    \/ \E t \in Threads : InitCAS(t)
    \/ \E t \in Threads : InitNative(t)
    \/ \E t \in Threads : DropShutdown(t)
    \/ \E t \in Threads : DropStore(t)

SpecAO == Init /\ [][NextAO]_vars

\* DeviceSink::new over a finite or an endless source
InitSink ==
    /\ InitAFD({<< >>})
    /\ InitAO
    /\ src \in Sources \cup {NoiseSource}
    /\ endless \in IF src = << >> THEN {FALSE} ELSE BOOLEAN
    /\ spc = "idle"
    /\ nsamples = 0
    /\ done = 0
    /\ devPlayed = << >>
    /\ runRet = 0
    /\ src0 = << >>
    /\ asked = 0
    /\ polls = 0
    /\ prev = NoRun
    /\ InitNoErrno
    /\ InitNoNative
    /\ InitNoConvert
    /\ InitNoNoise
    /\ InitNoRc

NextSink ==
    \/ \E n \in (0..MaxRequest) \cup {1000} : SinkRun(n)
    \/ SinkReturn
    \/ SinkNone
    \/ SinkBlock

SpecSink == InitSink /\ [][NextSink]_vars

\* run is sequential code that keeps running once it has been called: a
\* step of its loop that stays possible is taken; whether run is called
\* again is up to the caller
SpecSinkFair ==
    /\ InitSink
    /\ [][NextSink]_vars
    /\ WF_vars(SinkReturn)
    /\ WF_vars(SinkNone)
    /\ WF_vars(SinkBlock)

\* one of the two generators has been made with new
InitNoise ==
    /\ InitAFD({<< >>}) /\ InitAO /\ InitNoSink /\ InitNoErrno
    /\ InitNoNative /\ InitNoConvert /\ InitNoRc
    /\ ncount = 0
    /\ nlast = 0
    /\ nret = NoVec
    /\ dret = NoValue
    /\ \/ npc = "idle" /\ dpc = "none" /\ dty = 8
       \/ npc = "none" /\ dpc = "idle" /\ dty \in TypedWidths

NextNoise ==
    \/ NoiseNext
    \/ \E x \in Draws : NoiseSample(x)
    \/ NoiseReturn
    \/ \E x \in TypedDraws(dty) : TypedNext(x)

SpecNoise == InitNoise /\ [][NextNoise]_vars

\* Convert::new over a finite or an endless source
InitConvert ==
    /\ InitAFD({<< >>}) /\ InitAO /\ InitNoErrno /\ InitNoNative
    /\ InitNoNoise /\ InitNoRc
    /\ src \in Sources
    /\ endless \in IF src = << >> THEN {FALSE} ELSE BOOLEAN
    /\ spc = "none"
    /\ nsamples = 0
    /\ done = 0
    /\ devPlayed = << >>
    /\ runRet = 0
    /\ src0 = << >>
    /\ asked = 0
    /\ polls = 0
    /\ prev = NoRun
    /\ cpc = "idle"
    /\ cin = NoBlock
    /\ cout = NoBlock
    /\ cbefore = << >>

NextConvert ==
    \/ ConvertSome
    \/ ConvertUnwrapNone

SpecConvert == InitConvert /\ [][NextConvert]_vars

\* a SampleFormat is about to be opened
InitWithNative ==
    /\ InitAFD({<< >>}) /\ InitAO /\ InitNoSink /\ InitNoErrno
    /\ InitNoConvert /\ InitNoNoise /\ InitNoRc
    /\ version \in Versions
    /\ sfmt \in SampleFormats(version)
    /\ wpc = "start"
    /\ cstr = "none"
    /\ native = NoNative
    /\ seen = "none"
    /\ whandle = 0

NextNative ==
    \/ WnCString
    \/ WnNative
    \/ WnCall
    \/ WnCallReturns
    \/ WnFree

SpecNative == InitWithNative /\ [][NextNative]_vars

NextErrno ==
    \/ \E code \in ErrnoCodes : NativeFails(code)
    \/ TranslateErrno
    \/ TranslateErrnoRc

\* no native call has failed yet
InitErrno ==
    /\ InitAFD({<< >>}) /\ InitAO /\ InitNoSink /\ InitNoErrno
    /\ InitNoNative /\ InitNoConvert /\ InitNoNoise /\ InitNoRc

SpecErrno == InitErrno /\ [][NextErrno]_vars

\* the reference-counted bindings, no AO made yet
InitRc ==
    /\ InitAFD({<< >>}) /\ InitAO /\ InitNoSink /\ InitNoErrno
    /\ InitNoNative /\ InitNoConvert /\ InitNoNoise /\ InitNoRc

NextRc ==
    \/ \E a \in RcAOs : RcInit(a)
    \/ \E a \in RcAOs, d \in RcDevices : RcOpenOk(a, d)
    \/ \E a \in RcAOs : RcOpenFail(a)
    \/ \E a \in RcAOs : RcDropUser(a)
    \/ \E d \in RcDevices : RcDeviceClose(d)
    \/ RcDeviceRelease

SpecRc == InitRc /\ [][NextRc]_vars

\* ------------------------------------------------------------------ properties of play

SupportedWidths == {8, 16, 32}

PlayReturned == pc = "idle" /\ calls > 0

\* the matrix the table holds for c channels: entry c of a table indexed
\* from 0, none when the table has fewer than c + 1 entries
TableEntry(m, c) ==
    IF Len(m) < c + 1 THEN NoMatrix ELSE SomeMatrix(m[c + 1])

\* C1: while every buffer played so far has the same channels, sample_rate,
\* endianness and sample_width, the device has been opened successfully at
\* most once, and no native open is issued while a device is open.
C1_OpenedAtMostOnce ==
    allSame =>
        /\ okOpens <= 1
        /\ pc = "open" => device = NoDevice

C1_Witness ==
    /\ allSame
    /\ calls = MaxPlays
    /\ PlayReturned
    /\ result = "Ok"
    /\ prevResult = "Ok"
    /\ okOpens = 1

\* C2 as stated: whenever the second buffer of a pair of consecutive calls
\* with different formats has been written, exactly one native open was
\* made for it, whatever the outcome of the first call of the pair.
C2_OneReopenPerChange ==
    (PlayReturned /\ result = "Ok" /\ differs) => callOpens = 1

\* C2 amended: when the first call of a pair of consecutive calls with
\* different formats returned Ok, the second call makes exactly one native
\* open, and makes it before it writes its buffer.
C2_OneReopenAfterOk ==
    (differs /\ prevResult = "Ok" /\ pc \in {"write", "idle"}) =>
        callOpens = 1

C2_Witness ==
    /\ PlayReturned
    /\ differs
    /\ prevResult = "Ok"
    /\ result = "Ok"
    /\ callOpens = 1

\* C3: a play call whose native open failed has returned Err, has left
\* channels, sample_rate, endianness and the cached device as they were
\* when it was entered, has closed no handle and has made no native play.
C3_FailedReopenChangesNothing ==
    /\ (callOpens = 1 /\ handle = 0 /\ pc \notin {"errno", "dropped"}) =>
           (pc = "idle" /\ result = "Err")
    /\ (pc = "idle" /\ result = "Err") =>
           /\ channels = pre.channels
           /\ sample_rate = pre.sample_rate
           /\ endianness = pre.endianness
           /\ device = pre.device
           /\ opened = pre.opened
           /\ played = NoPlay

C3_Witness ==
    /\ pc = "idle"
    /\ result = "Err"
    /\ device # NoDevice
    /\ ~SameFormat(data, [channels |-> channels, sample_rate |-> sample_rate,
                          endianness |-> endianness,
                          sample_width |-> SampleWidthOf(device)])

\* C4: every native play goes to the handle of the cached device, which is
\* open and was opened with the sample width, the rate, the channel count
\* and the byte order of the buffer played, and with the table's matrix for
\* that channel count.
C4_PlayedOnMatchingDevice ==
    (PlayReturned /\ result = "Ok") =>
        /\ played.id = device.id
        /\ played.id \in opened
        /\ hfmt[played.id].bits = data.sample_width
        /\ hfmt[played.id].sample_rate = data.sample_rate
        /\ hfmt[played.id].channels = data.channels
        /\ hfmt[played.id].byte_order = data.endianness
        /\ hfmt[played.id].matrix = TableEntry(matrixes, data.channels)

C4_Witness ==
    /\ PlayReturned
    /\ result = "Ok"
    /\ prevResult = "Err"
    /\ callOpens = 0
    /\ differs

\* C5 as stated: between play calls, when a device is cached, the cached
\* triple is the format the device was opened with and the width of the
\* variant is the sample_width of the last buffer passed to play.
C5_CacheDescribesLastBuffer ==
    (pc = "idle" /\ device # NoDevice) =>
        /\ channels = hfmt[device.id].channels
        /\ sample_rate = hfmt[device.id].sample_rate
        /\ endianness = hfmt[device.id].byte_order
        /\ SampleWidthOf(device) = data.sample_width

\* C5 amended: between play calls, when a device is cached, the cached
\* triple is the format the device was opened with and the width of the
\* variant is the sample_width of the last buffer for which play returned
\* Ok.
C5_CacheDescribesLastPlayed ==
    (pc = "idle" /\ device # NoDevice) =>
        /\ channels = hfmt[device.id].channels
        /\ sample_rate = hfmt[device.id].sample_rate
        /\ endianness = hfmt[device.id].byte_order
        /\ SampleWidthOf(device) = hfmt[device.id].bits
        /\ SampleWidthOf(device) = okWidth

C5_Witness ==
    /\ pc = "idle"
    /\ result = "Err"
    /\ device # NoDevice
    /\ data.sample_width # SampleWidthOf(device)
    /\ okWidth = SampleWidthOf(device)

\* C6 as stated: at every point, also inside a reopen, at most one native
\* handle opened by the AutoFormatDevice is open.
C6_AtMostOneOpen == Cardinality(opened) <= 1

\* C6 amended: at most one handle is open except inside a reopen, between
\* the successful native open and the assignment that drops the replaced
\* device; there the old and the new handle are both open, and never more
\* than these two.
C6_AtMostOneOpenBetweenCalls ==
    /\ Cardinality(opened) <= 2
    /\ pc # "assign" => Cardinality(opened) <= 1
    /\ pc = "assign" => opened = DropDevice(device) \cup {handle}
    /\ pc = "dropped" => opened = {}

C6_Witness ==
    /\ PlayReturned
    /\ result = "Ok"
    /\ okOpens = 2
    /\ opened = {device.id}

\* C7: the byte count of every native play is the length in bytes of the
\* buffer's data().
C7_ByteCountIsDataLength ==
    (PlayReturned /\ result = "Ok") => played.num_bytes = data.len

C9_MatrixSelection ==
    /\ (pc \in {"open", "assign"} \/ callOpens = 1) =>
           format.matrix = TableEntry(matrixes, data.channels)
    /\ \A h \in opened :
           hfmt[h].matrix = TableEntry(matrixes, hfmt[h].channels)

C9_Witness ==
    /\ pc = "assign"
    /\ Len(matrixes) = data.channels + 1
    /\ format.matrix = SomeMatrix(matrixes[Len(matrixes)])
    /\ hfmt[handle].matrix = format.matrix

\* ------------------------------------------------------------------ properties of AO

RECURSIVE SumOwns(_)
SumOwns(T) ==
    IF T = {} THEN 0
    ELSE LET t == CHOOSE x \in T : TRUE IN owns[t] + SumOwns(T \ {t})

\* the AO values that exist
LiveCount == SumOwns(Threads)

\* thread t makes the step of AO::init that tests the flag
InitCalled(t) ==
    /\ tpc[t] = "idle"
    /\ tpc'[t] \in {"initializing", "panicked"}

\* C10: whatever the interleaving of the threads, at most one AO exists,
\* and an AO::init made while an AO exists panics without a native
\* initialize and without touching the flag or the existing AO.
C10_SingleInstance ==
    /\ [](LiveCount <= 1)
    /\ [][\A t \in Threads :
            (InitCalled(t) /\ LiveCount > 0) =>
                /\ tpc'[t] = "panicked"
                /\ FFI_INITIALIZED' = FFI_INITIALIZED
                /\ owns' = owns
                /\ ninit' = ninit
                /\ lib' = lib]_vars

C10_Witness ==
    \E t \in Threads, u \in Threads :
        /\ t # u
        /\ tpc[t] = "panicked"
        /\ owns[t] = 0
        /\ owns[u] = 1
        /\ tpc[u] = "idle"

\* no thread is between the flag test of AO::init and its return
NoInitInProgress == \A t \in Threads : tpc[t] # "initializing"

\* C11: the native initialize and shutdown calls alternate, starting with
\* initialize, and once the AO that existed has been dropped an AO::init
\* is not refused.
C11_InitShutdownAlternate ==
    /\ [](/\ ~misuse
          /\ lib = "up" <=> ninit = nshutdown + 1
          /\ lib = "down" <=> ninit = nshutdown
          /\ (LiveCount = 0 /\ NoInitInProgress) => ~FFI_INITIALIZED)
    /\ [][\A t \in Threads :
            (InitCalled(t) /\ LiveCount = 0 /\ NoInitInProgress) =>
                tpc'[t] = "initializing"]_vars

C11_Witness ==
    /\ nshutdown = 1
    /\ ninit = 2
    /\ lib = "up"
    /\ LiveCount = 1

\* C12: every handle the AutoFormatDevice opened is closed exactly once, by
\* the assignment of a successful reopen or by the drop of the
\* AutoFormatDevice, after which none is open; no ao_play is issued on a
\* closed handle; a constructed AutoFormatDevice has opened nothing.
C12_ClosedExactlyOnce ==
    /\ ~closedTwice
    /\ ~playedClosed
    /\ okOpens = nclosed + Cardinality(opened)
    /\ pc = "dropped" => opened = {}
    /\ device # NoDevice => device.id \in opened
    /\ pc \notin {"assign", "write", "dropped"} =>
           opened = DropDevice(device)
    /\ calls = 0 => okOpens = 0

C12_Witness ==
    /\ pc = "dropped"
    /\ okOpens = 2
    /\ nclosed = 2
    /\ lastNative = "ao_close"
    /\ played.id # 0

\* C15: after a native open has returned null, no native call is made
\* before errno has been read: at the read, and when play has returned the
\* Err, the failed ao_open_live is still the last native call, and the
\* device cached before the call is still open.
C15_ErrnoReadAfterFailedOpen ==
    ((pc = "errno") \/ (pc = "idle" /\ result = "Err")) =>
        /\ lastNative = "ao_open_live"
        /\ opened = pre.opened
        /\ device = pre.device

C15_Witness ==
    /\ pc = "idle"
    /\ result = "Err"
    /\ device # NoDevice
    /\ opened = {device.id}
    /\ lastNative = "ao_open_live"

\* C19: a play call that has returned has returned Err exactly when it
\* made a native open and that open failed; otherwise it has returned Ok,
\* whether ao_play returned zero or not.
C19_ErrOnlyFromFailedOpen ==
    PlayReturned =>
        /\ result = "Err" <=> (callOpens = 1 /\ handle = 0)
        /\ result = "Ok" <=> ~(callOpens = 1 /\ handle = 0)
        /\ result = "Ok" => played.id # 0

C19_Witness ==
    /\ PlayReturned
    /\ result = "Ok"
    /\ played.id # 0
    /\ played.ret = 0
    /\ callOpens = 0

RECURSIVE SumLens(_)
\* the number of samples in a sequence of blocks
SumLens(blocks) ==
    IF blocks = << >> THEN 0 ELSE Len(Head(blocks)) + SumLens(Tail(blocks))

\* what a source that starts with the given blocks can supply towards a
\* request of n samples
Supply(blocks, cyc, n) ==
    IF cyc /\ SumLens(blocks) > 0
    THEN n
    ELSE IF n < SumLens(blocks) THEN n ELSE SumLens(blocks)

\* the i-th block a source that starts with the given blocks yields
NthBlock(blocks, i) == blocks[((i - 1) % Len(blocks)) + 1]

\* C13: run(N) keeps done <= N and done is the number of samples given to
\* the device; the slices given to the device are the blocks of the source
\* in order, each whole except the last, which is the start of its block;
\* the value returned is min(N, what the source can supply).
C13_RunForwardsPrefix ==
    spc \in {"loop", "returned"} =>
        /\ done <= nsamples
        /\ done = SumLens(devPlayed)
        /\ \A i \in 1..Len(devPlayed) :
              /\ Len(devPlayed[i]) <= Len(NthBlock(src0, i))
              /\ devPlayed[i] =
                     SubSeq(NthBlock(src0, i), 1, Len(devPlayed[i]))
              /\ i < Len(devPlayed) => devPlayed[i] = NthBlock(src0, i)
        /\ ~endless => Len(devPlayed) + Len(src) = Len(src0)
        /\ spc = "returned" =>
              /\ runRet = done
              /\ runRet = Supply(src0, endless, nsamples)

\* the example of 1000 samples from blocks of 512: 512, then 488
C13_Witness ==
    /\ spc = "returned"
    /\ nsamples = 1000
    /\ runRet = 1000
    /\ Len(devPlayed) = 2
    /\ Len(devPlayed[1]) = BlockSize
    /\ Len(devPlayed[2]) = 488

\* the variant named after each native error code
VariantNamed(code) ==
    CASE code = 1 -> "NoDriver"
      [] code = 2 -> "NotFile"
      [] code = 3 -> "NotLive"
      [] code = 4 -> "BadOption"
      [] code = 5 -> "OpenDevice"
      [] code = 6 -> "OpenFile"
      [] code = 7 -> "FileExists"
      [] code = 8 -> "BadFormat"
      [] OTHER -> "Unknown"

\* C14: both versions of from_errno give the variant named after the code
\* for the codes 1..8 and Unknown for every other code.
C14_ErrnoMapping ==
    /\ aoError # "none" => aoError = VariantNamed(errno)
    /\ aoErrorRc # "none" => aoErrorRc = VariantNamed(errno)

\* C16: the bits field of every native format struct with_native builds is
\* 8, 16 or 32.
C16_BitsSupported ==
    wpc \in {"ready", "calling", "called", "returned"} =>
        native.bits \in {8, 16, 32}

\* C20: while the native open of a format with a matrix runs, the C string
\* its matrix pointer refers to is allocated, and when with_native has
\* returned it has been freed.
C20_MatrixStringAlive ==
    sfmt.matrix.some =>
        /\ wpc = "calling" => (native.matrix = "ptr" /\ cstr = "alive")
        /\ wpc = "returned" => cstr = "freed"

\* C17: a call of Convert::next does not panic; when the upstream returned
\* None it returns None, and when the upstream returned a block it has
\* taken that one block from the upstream and returns a block of as many
\* samples.
C17_ConvertFollowsSource ==
    /\ cpc # "panicked"
    /\ cpc = "returned" =>
          IF cin.some
          THEN /\ cout.some
               /\ Len(cout.block) = Len(cin.block)
               /\ cin.block = Head(cbefore)
               /\ src = SourceRest(cbefore, endless)
          ELSE cout = NoBlock

\* C18: a call of WhiteNoise::next that has returned has returned Some of a
\* block of block_size samples, every sample put into a block is between
\* -1.0 and 1.0, and the typed generator returns Some of a value between
\* the least and the greatest value of its integer type.
C18_NoiseInRange ==
    /\ npc = "returned" => (nret.some /\ nret.len = BlockSize)
    /\ (npc \in {"filling", "returned"} /\ ncount > 0) =>
           (0 - One <= nlast /\ nlast <= One)
    /\ dpc = "returned" =>
           /\ dret.some
           /\ MinValue(dty) <= dret.val
           /\ dret.val <= MaxValue(dty)

C18_Witness ==
    /\ npc = "returned"
    /\ nret.some
    /\ nret.len = BlockSize
    /\ nlast = One

\* a source that is exhausted after finitely many blocks, or that yields
\* only blocks that are not empty
Terminating ==
    \/ ~endless
    \/ \A i \in 1..Len(src) : Len(src[i]) > 0

\* C21: a run over a source that ends or that yields no empty block
\* returns; a run polls the source only while done < N, so run(0) polls
\* nothing, and after done has reached N or the source has returned None
\* it polls no more.
C21_RunTerminates ==
    /\ (spc = "loop" /\ Terminating) ~> (spc = "returned")
    /\ []((spc \in {"loop", "returned"} /\ nsamples = 0) =>
             (polls = 0 /\ src = src0))
    /\ [](spc = "returned" =>
             /\ polls <= Len(devPlayed) + 1
             /\ polls = Len(devPlayed) + 1 => (src = << >> /\ done < nsamples))
    /\ [][polls' > polls => (spc = "loop" /\ spc' # "idle" /\ done < nsamples)]_vars
    /\ [][(spc = "returned" /\ spc' = "returned") =>
              (polls' = polls /\ src' = src)]_vars

C21_Witness ==
    /\ spc = "returned"
    /\ endless
    /\ nsamples = MaxRequest
    /\ polls = MaxRequest
    /\ runRet = MaxRequest

\* a stream of blocks without its first k blocks
DropBlocks(blocks, cyc, k) ==
    IF cyc
    THEN [i \in 1..Len(blocks) |-> blocks[((i - 1 + k) % Len(blocks)) + 1]]
    ELSE SubSeq(blocks, k + 1, Len(blocks))

\* C22: a run that follows a run which cut its last block short finds the
\* source where that run left it, past the block that was cut: the first
\* slice it forwards is the start of the block after the cut one, not the
\* samples that were cut off.
C22_TailDiscarded ==
    (spc \in {"loop", "returned"} /\ prev.cut) =>
        /\ src0 = DropBlocks(prev.src0, endless, prev.taken)
        /\ devPlayed # << >> =>
              /\ devPlayed[1] =
                     SubSeq(NthBlock(prev.src0, prev.taken + 1), 1,
                            Len(devPlayed[1]))
              /\ \A i \in 1..Len(devPlayed[1]) : devPlayed[1][i][2] = i

C22_Witness ==
    /\ spc = "returned"
    /\ prev.cut
    /\ ~endless
    /\ prev.taken = 1
    /\ devPlayed # << >>
    /\ Len(devPlayed[1]) > 0

\* the Devices created through AO a
DevicesOf(a) == { d \in RcDevices : devs[d].st # "none" /\ devs[d].ao = a }

\* C23: in the reference-counted bindings ao_shutdown has been called for
\* an AO only when every Device created through it has been closed, and it
\* is called when the user's handle and all these Devices are gone, in
\* whatever order they were dropped.
C23_ShutdownAfterCloses ==
    \A a \in RcAOs :
        /\ aos[a].st = "shut" =>
              /\ ~aos[a].user
              /\ \A d \in DevicesOf(a) : devs[d].st \in {"closed", "released"}
              /\ dropping = 0 =>
                     \A d \in DevicesOf(a) : devs[d].st = "released"
        /\ (aos[a].st = "live" /\ ~aos[a].user) =>
              \E d \in DevicesOf(a) : devs[d].st # "released"

C23_Witness ==
    \E a \in RcAOs :
        /\ aos[a].st = "shut"
        /\ \E d \in DevicesOf(a) : devs[d].late
        /\ \E d \in DevicesOf(a) : ~devs[d].late

====
